---- MODULE Spec2Model ----
(***************************************************************************)
(* Model of src/script.js: a five-step questionnaire wizard (four radio    *)
(* groups, next/previous buttons) and the risk calculation engine that the *)
(* step-4 "next" handler runs before the results step is shown.            *)
(*                                                                         *)
(* Numbers.  A JavaScript number is modelled as a record                   *)
(*   [nan |-> BOOLEAN, v |-> Int]                                          *)
(* where v counts units of 10^-5.  Every product and sum the script forms  *)
(* from its one-decimal coefficients has at most five decimals, so the     *)
(* fixed-point value is the exact decimal value of the expression; the     *)
(* IEEE double the script computes differs from it by a few ulps only and  *)
(* lies on the same side of every threshold (40, 60, 80, 70, 100) for all  *)
(* 108 answer combinations.  NaN is kept as its own value because          *)
(* undefined table lookups produce it.                                     *)
(***************************************************************************)
EXTENDS Integers, Sequences, FiniteSets, TLC

VARIABLES
    currentStep,   \* state.currentStep
    formData,      \* state.formData
    disabled,      \* disabled[k]: the disabled property of nextBtn<k>
    active,        \* the steps whose .step element carries class "active"
    progress,      \* elements.progressFill.style.width, in percent
    scrollTop,     \* vertical scroll position of the window
    dom,           \* the results container: <<>> until rendered, else <<r>>
    riskData,      \* the last value returned by calculateRisk: <<>> or <<r>>
    calcInput,     \* history: the formData calculateRisk read last: <<>> or <<fd>>
    lastEvent      \* history: the event or call handled last

vars == <<currentStep, formData, disabled, active, progress, scrollTop,
          dom, riskData, calcInput, lastEvent>>

-----------------------------------------------------------------------------
(* Bounds *)

\* the window can be scrolled to positions 0..MaxScroll
MaxScroll == 1

-----------------------------------------------------------------------------
(* Application state, lines 20-29 *)

totalSteps == 5

\* JavaScript null
NULL == "null"

Fields == {"firmSize", "bilingualExposure", "region", "hiringPressure"}

InitialFormData ==
    [firmSize |-> NULL, bilingualExposure |-> NULL,
     region |-> NULL, hiringPressure |-> NULL]

-----------------------------------------------------------------------------
(* JavaScript numbers *)

Unit == 10 * 10 * 10 * 10 * 10

NaN == [nan |-> TRUE, v |-> 0]

Num(n) == [nan |-> FALSE, v |-> n]

\* the number literal with integer value n
Lit(n) == Num(n * Unit)

\* the value of a property read that finds no such key
Undefined == [undef |-> TRUE, tenths |-> 0]

\* table[key]: the tables hold tenths; a key the table lacks reads as
\* undefined (null is never a key)
Lookup(table, key) ==
    IF key \in DOMAIN table
    THEN [undef |-> FALSE, tenths |-> table[key]]
    ELSE Undefined

\* x * c for a looked-up coefficient c: undefined converts to NaN
TimesCoeff(x, c) ==
    IF x.nan \/ c.undef THEN NaN ELSE Num((x.v * c.tenths) \div 10)

\* x * (t / 10) for a one-decimal literal t/10
TimesTenths(x, t) ==
    IF x.nan THEN NaN ELSE Num((x.v * t) \div 10)

Plus(x, y) == IF x.nan \/ y.nan THEN NaN ELSE Num(x.v + y.v)

Minus(x, y) == IF x.nan \/ y.nan THEN NaN ELSE Num(x.v - y.v)

\* Math.min and Math.max return NaN when an argument is NaN
MathMin(x, y) ==
    IF x.nan \/ y.nan THEN NaN ELSE IF x.v <= y.v THEN x ELSE y

MathMax(x, y) ==
    IF x.nan \/ y.nan THEN NaN ELSE IF x.v >= y.v THEN x ELSE y

\* x < n for an integer literal n: false when x is NaN
LessThan(x, n) == ~x.nan /\ x.v < n * Unit

\* Math.round: nearest integer, halves towards +infinity; NaN stays NaN
MathRound(x) ==
    IF x.nan THEN NaN ELSE Num(((2 * x.v + Unit) \div (2 * Unit)) * Unit)

-----------------------------------------------------------------------------
(* Risk modelling configuration, lines 41-70; coefficients in tenths *)

firmSizeRisk == [small |-> 8, medium |-> 10, large |-> 12]

bilingualRisk == [low |-> 7, medium |-> 10, high |-> 14]

regionalPressure == [brussels |-> 13, antwerp |-> 12, liege |-> 9, other |-> 10]

hiringPressureRisk == [stable |-> 8, moderate |-> 10, aggressive |-> 13]

riskConfig ==
    [firmSizeRisk |-> firmSizeRisk, bilingualRisk |-> bilingualRisk,
     regionalPressure |-> regionalPressure,
     hiringPressureRisk |-> hiringPressureRisk]

\* the regions of marketHeatmapData, in insertion order (lines 73-78)
marketHeatmapData ==
    << [region |-> "brussels", level |-> "high", label |-> "Critical tension"],
       [region |-> "antwerp", level |-> "high", label |-> "High tension"],
       [region |-> "liege", level |-> "moderate", label |-> "Moderate tension"],
       [region |-> "other", level |-> "moderate", label |-> "Variable tension"] >>

-----------------------------------------------------------------------------
(* Risk calculation engine, lines 167-220 *)

\* variant: the multiplier chain without the normalisation to 0-100
riskScoreOf_noClamp(fd) ==
    TimesCoeff(
        TimesCoeff(
            TimesCoeff(
                TimesCoeff(Lit(50),
                           Lookup(riskConfig.firmSizeRisk, fd.firmSize)),
                Lookup(riskConfig.bilingualRisk, fd.bilingualExposure)),
            Lookup(riskConfig.regionalPressure, fd.region)),
        Lookup(riskConfig.hiringPressureRisk, fd.hiringPressure))

\* the multiplier chain and the normalisation, lines 171-180
riskScoreOf(fd) ==
    LET s0 == Lit(50)
        s1 == TimesCoeff(s0, Lookup(riskConfig.firmSizeRisk, fd.firmSize))
        s2 == TimesCoeff(s1, Lookup(riskConfig.bilingualRisk, fd.bilingualExposure))
        s3 == TimesCoeff(s2, Lookup(riskConfig.regionalPressure, fd.region))
        s4 == TimesCoeff(s3, Lookup(riskConfig.hiringPressureRisk, fd.hiringPressure))
    IN  MathMin(Lit(100), MathMax(Lit(0), s4))

\* the label and the description each branch of the ladder assigns
riskLevels ==
    [low |-> "Low", moderate |-> "Moderate", elevated |-> "Elevated",
     structural |-> "Structural Risk"]

riskDescriptions ==
    [low |-> "Your exposure to bilingual talent attrition is well-managed. Maintain current capability building while monitoring market developments.",
     moderate |-> "Identifiable attrition risk on critical profiles. Proactive retention strategy recommended for capability resilience.",
     elevated |-> "Significant vulnerability to talent loss. Strategic intervention required to secure bilingual capabilities.",
     structural |-> "Critical exposure to bilingual talent scarcity. Reconfiguration of your talent access model required."]

\* variant: the thresholds compared with <= instead of <
riskClassOf_inclusive(riskScore) ==
    IF ~riskScore.nan /\ riskScore.v <= 40 * Unit THEN "low"
    ELSE IF ~riskScore.nan /\ riskScore.v <= 60 * Unit THEN "moderate"
    ELSE IF ~riskScore.nan /\ riskScore.v <= 80 * Unit THEN "elevated"
    ELSE "structural"

\* the threshold ladder, lines 184-200: the branch taken
riskClassOf(riskScore) ==
    IF LessThan(riskScore, 40) THEN "low"
    ELSE IF LessThan(riskScore, 60) THEN "moderate"
    ELSE IF LessThan(riskScore, 80) THEN "elevated"
    ELSE "structural"

\* riskLevel, riskClass and riskDescription as the branch assigns them
riskTierOf(riskScore) ==
    [riskLevel |-> riskLevels[riskClassOf(riskScore)],
     riskClass |-> riskClassOf(riskScore),
     riskDescription |-> riskDescriptions[riskClassOf(riskScore)]]

\* variant: the sub-indicators without Math.min(100, ...)
indicatorsOf_noCap(fd, riskScore) ==
    [bilingualPressure |->
        Plus(TimesTenths(riskScore, 11),
             IF fd.region = "brussels" THEN Lit(15) ELSE Lit(0)),
     scarcityExposure |-> TimesTenths(riskScore, 12),
     aiLeverage |->
        Plus(Minus(Lit(100), TimesTenths(riskScore, 3)),
             IF fd.firmSize = "large" THEN Lit(20) ELSE Lit(0)),
     eorFeasibility |->
        Plus(IF fd.bilingualExposure = "high" THEN Lit(85) ELSE Lit(60),
             IF fd.hiringPressure = "aggressive" THEN Lit(15) ELSE Lit(0))]

\* the sub-indicators, lines 203-206
indicatorsOf(fd, riskScore) ==
    [bilingualPressure |->
        MathMin(Lit(100),
                Plus(TimesTenths(riskScore, 11),
                     IF fd.region = "brussels" THEN Lit(15) ELSE Lit(0))),
     scarcityExposure |->
        MathMin(Lit(100), TimesTenths(riskScore, 12)),
     aiLeverage |->
        MathMin(Lit(100),
                Plus(Minus(Lit(100), TimesTenths(riskScore, 3)),
                     IF fd.firmSize = "large" THEN Lit(20) ELSE Lit(0))),
     eorFeasibility |->
        MathMin(Lit(100),
                Plus(IF fd.bilingualExposure = "high" THEN Lit(85) ELSE Lit(60),
                     IF fd.hiringPressure = "aggressive" THEN Lit(15) ELSE Lit(0)))]

calculateRisk(fd) ==
    LET riskScore == riskScoreOf(fd)
        tier == riskTierOf(riskScore)
    IN  [riskScore |-> riskScore,
         riskLevel |-> tier.riskLevel,
         riskClass |-> tier.riskClass,
         riskDescription |-> tier.riskDescription,
         indicators |-> indicatorsOf(fd, riskScore)]

-----------------------------------------------------------------------------
(* Label helpers, lines 278-304: labels[x] || x.  The labels are kept in   *)
(* ASCII here (the script uses an en dash and an accented e).              *)

getFirmSizeLabel(size) ==
    LET labels == [small |-> "50-100 professionals",
                   medium |-> "100-150 professionals",
                   large |-> "150-250 professionals"]
    IN  IF size \in DOMAIN labels THEN labels[size] ELSE size

getBilingualLabel(exposure) ==
    LET labels == [low |-> "less than 25%",
                   medium |-> "25% to 50%",
                   high |-> "more than 50%"]
    IN  IF exposure \in DOMAIN labels THEN labels[exposure] ELSE exposure

getRegionLabel(region) ==
    LET labels == [brussels |-> "Brussels",
                   antwerp |-> "Antwerp/Flanders",
                   liege |-> "Liege/Wallonia",
                   other |-> "other Belgian regions"]
    IN  IF region \in DOMAIN labels THEN labels[region] ELSE region

\* riskLevel.toLowerCase()
toLowerCase(riskLevel) ==
    CASE riskLevel = "Low" -> "low"
      [] riskLevel = "Moderate" -> "moderate"
      [] riskLevel = "Elevated" -> "elevated"
      [] riskLevel = "Structural Risk" -> "structural risk"

\* generateInterpretation, lines 226-273: the substituted phrases of the
\* opening sentence, the recommendation list chosen by riskClass (named by
\* its branch) and the fixed market paragraph
generateInterpretation(fd, rd) ==
    [organization |-> getFirmSizeLabel(fd.firmSize),
     exposure |-> getBilingualLabel(fd.bilingualExposure),
     operatingIn |-> getRegionLabel(fd.region),
     profile |-> toLowerCase(rd.riskLevel),
     recommendations |->
        IF rd.riskClass = "low" THEN "low: 3 items"
        ELSE IF rd.riskClass = "moderate" THEN "moderate: 3 items"
        ELSE IF rd.riskClass = "elevated" THEN "elevated: 4 items"
        ELSE "structural: 4 items",
     market |-> "Market intelligence"]

-----------------------------------------------------------------------------
(* Rendering, lines 309-359 *)

\* updateIndicator, lines 331-343: bar width, rounded text, colour class
updateIndicator(value) ==
    [width |-> value,
     text |-> MathRound(value),
     class |-> IF LessThan(value, 40) THEN "low"
               ELSE IF LessThan(value, 70) THEN "moderate"
               ELSE "high"]

\* renderHeatmap, lines 345-359: one cell per entry of marketHeatmapData
renderHeatmap ==
    [i \in DOMAIN marketHeatmapData |->
        [class |-> marketHeatmapData[i].level,
         region |-> getRegionLabel(marketHeatmapData[i].region),
         status |-> marketHeatmapData[i].label]]

\* what calculateAndShowResults writes into the document for result rd
showResults(fd, rd) ==
    [riskValue |-> rd.riskLevel,
     riskValueClass |-> rd.riskClass,
     riskDescription |-> rd.riskDescription,
     bilingualPressure |-> updateIndicator(rd.indicators.bilingualPressure),
     scarcity |-> updateIndicator(rd.indicators.scarcityExposure),
     aiLeverage |-> updateIndicator(rd.indicators.aiLeverage),
     eorFeasibility |-> updateIndicator(rd.indicators.eorFeasibility),
     interpretationContent |-> generateInterpretation(fd, rd),
     marketHeatmap |-> renderHeatmap]

-----------------------------------------------------------------------------
(* The document the script is loaded into *)

\* the value attributes of the radio inputs of a group
RadioValues(field) ==
    CASE field = "firmSize" -> {"small", "medium", "large"}
      [] field = "bilingualExposure" -> {"low", "medium", "high"}
      [] field = "region" -> {"brussels", "antwerp", "liege", "other"}
      [] field = "hiringPressure" -> {"stable", "moderate", "aggressive"}

\* every next button is disabled in the markup
InitialDisabled == [k \in 1..(totalSteps - 1) |-> TRUE]

\* the markup gives step 1 the class "active"
InitialActive == {1}

\* only a step with class "active" is displayed, so only its controls can
\* be operated
Displayed(k) == k \in active

-----------------------------------------------------------------------------
(* Navigation, lines 138-161 *)

\* variant: progress counted from step 0
updateProgress_zeroBased(step) == ((step - 1) * 100) \div totalSteps

\* updateProgress: (currentStep / totalSteps) * 100
updateProgress(step) == (step * 100) \div totalSteps

\* the part of the state nextStep and prevStep work on
nav ==
    [currentStep |-> currentStep, active |-> active,
     progress |-> progress, scrollTop |-> scrollTop]

\* variant: the guard compares with <= instead of <
nextStep_pastLast(n) ==
    IF n.currentStep <= totalSteps
    THEN [currentStep |-> n.currentStep + 1,
          active |-> (n.active \ {n.currentStep}) \cup {n.currentStep + 1},
          progress |-> updateProgress(n.currentStep + 1),
          scrollTop |-> 0]
    ELSE n

nextStep(n) ==
    IF n.currentStep < totalSteps
    THEN [currentStep |-> n.currentStep + 1,
          active |-> (n.active \ {n.currentStep}) \cup {n.currentStep + 1},
          progress |-> updateProgress(n.currentStep + 1),
          scrollTop |-> 0]
    ELSE n

prevStep(n) ==
    IF n.currentStep > 1
    THEN [currentStep |-> n.currentStep - 1,
          active |-> (n.active \ {n.currentStep}) \cup {n.currentStep - 1},
          progress |-> updateProgress(n.currentStep - 1),
          scrollTop |-> 0]
    ELSE n

\* the next state holds navigation state n
SetNav(n) ==
    /\ currentStep' = n.currentStep
    /\ active' = n.active
    /\ progress' = n.progress
    /\ scrollTop' = n.scrollTop

Event(kind, step) == [kind |-> kind, step |-> step]

-----------------------------------------------------------------------------
(* The wizard: state after init() (lines 83-86) and the event handlers     *)
(* bound by bindEvents (lines 91-133)                                      *)

Init ==
    /\ currentStep = 1
    /\ formData = InitialFormData
    /\ disabled = InitialDisabled
    /\ active = InitialActive
    /\ progress = updateProgress(1)
    /\ scrollTop = 0
    /\ dom = <<>>
    /\ riskData = <<>>
    /\ calcInput = <<>>
    /\ lastEvent = Event("init", 1)

\* variant: the change handler enables every next button
radioChange_enablesAll(step, field, btn, v) ==
    /\ Displayed(step)
    /\ v \in RadioValues(field)
    /\ v # formData[field]
    /\ formData' = [formData EXCEPT ![field] = v]
    /\ disabled' = [k \in DOMAIN disabled |-> FALSE]
    /\ lastEvent' = Event("change", step)
    /\ UNCHANGED <<currentStep, active, progress, scrollTop, dom, riskData,
                   calcInput>>

\* a change handler: record the value, enable the step's next button.  The
\* change event fires only when another radio of the group gets checked.
radioChange(step, field, btn, v) ==
    /\ Displayed(step)
    /\ v \in RadioValues(field)
    /\ v # formData[field]
    /\ formData' = [formData EXCEPT ![field] = v]
    /\ disabled' = [disabled EXCEPT ![btn] = FALSE]
    /\ lastEvent' = Event("change", step)
    /\ UNCHANGED <<currentStep, active, progress, scrollTop, dom, riskData,
                   calcInput>>

\* lines 93-98
Step1Change(v) == radioChange(1, "firmSize", 1, v)

\* variant: step 2's handler enables nextBtn1
Step2Change_enablesBtn1(v) == radioChange(2, "bilingualExposure", 1, v)

\* lines 102-107
Step2Change(v) == radioChange(2, "bilingualExposure", 2, v)

\* lines 112-117
Step3Change(v) == radioChange(3, "region", 3, v)

\* lines 122-127
Step4Change(v) == radioChange(4, "hiringPressure", 4, v)

\* variant: nextBtn3's handler renders the results too
showsResults_fromStep3(k) == k >= 3

\* variant: no handler renders the results
showsResults_never(k) == FALSE

\* the next button whose click handler renders the results before it calls
\* nextStep (lines 129-132); the others call nextStep only (99, 109, 119)
showsResults(k) == k = 4

\* click on an enabled nextBtn<k>
NextBtnClick(k) ==
    /\ Displayed(k)
    /\ ~disabled[k]
    /\ IF showsResults(k)
       THEN /\ riskData' = <<calculateRisk(formData)>>
            /\ dom' = <<showResults(formData, calculateRisk(formData))>>
            /\ calcInput' = <<formData>>
       ELSE UNCHANGED <<riskData, dom, calcInput>>
    /\ SetNav(nextStep(nav))
    /\ lastEvent' = Event("next", k)
    /\ UNCHANGED <<formData, disabled>>

\* click on a disabled nextBtn<k>: no click event is dispatched, no handler
\* runs
DisabledNextBtnClick(k) ==
    /\ Displayed(k)
    /\ disabled[k]
    /\ lastEvent' = Event("next-disabled", k)
    /\ UNCHANGED <<currentStep, formData, disabled, active, progress,
                   scrollTop, dom, riskData, calcInput>>

\* click on prevBtn<k>, k = 2, 3, 4 (lines 108, 118, 128)
PrevBtnClick(k) ==
    /\ Displayed(k)
    /\ SetNav(prevStep(nav))
    /\ lastEvent' = Event("prev", k)
    /\ UNCHANGED <<formData, disabled, dom, riskData, calcInput>>

\* the user scrolls the page (what window.scrollTo later resets)
Scroll(y) ==
    /\ y # scrollTop
    /\ scrollTop' = y
    /\ lastEvent' = Event("scroll", currentStep)
    /\ UNCHANGED <<currentStep, formData, disabled, active, progress, dom,
                   riskData, calcInput>>

\* a change event of one of the four radio groups
Change ==
    \/ \E v \in RadioValues("firmSize") : Step1Change(v)
    \/ \E v \in RadioValues("bilingualExposure") : Step2Change(v)
    \/ \E v \in RadioValues("region") : Step3Change(v)
    \/ \E v \in RadioValues("hiringPressure") : Step4Change(v)

Next ==
    \/ Change
    \/ \E k \in 1..(totalSteps - 1) : NextBtnClick(k)
    \/ \E k \in 1..(totalSteps - 1) : DisabledNextBtnClick(k)
    \/ \E k \in 2..(totalSteps - 1) : PrevBtnClick(k)
    \/ \E y \in 0..MaxScroll : Scroll(y)

Spec == Init /\ [][Next]_vars

-----------------------------------------------------------------------------
(* nextStep and prevStep called directly, in any order and interleaved     *)
(* with answer selection and scrolling: every currentStep in 1..5 with any *)
(* set of answers given                                                    *)

CallNextStep ==
    /\ SetNav(nextStep(nav))
    /\ lastEvent' = Event("nextStep()", currentStep)
    /\ UNCHANGED <<formData, disabled, dom, riskData, calcInput>>

CallPrevStep ==
    /\ SetNav(prevStep(nav))
    /\ lastEvent' = Event("prevStep()", currentStep)
    /\ UNCHANGED <<formData, disabled, dom, riskData, calcInput>>

NextNav ==
    \/ Change
    \/ \E y \in 0..MaxScroll : Scroll(y)
    \/ CallNextStep
    \/ CallPrevStep

SpecNav == Init /\ [][NextNav]_vars

-----------------------------------------------------------------------------
(* calculateRisk called on any formData: each field one of its radio       *)
(* values, null, or a string that is no key of the coefficient table       *)

Unrecognized == "unknown"

AnyFormData ==
    [firmSize : RadioValues("firmSize") \cup {NULL, Unrecognized},
     bilingualExposure : RadioValues("bilingualExposure") \cup {NULL, Unrecognized},
     region : RadioValues("region") \cup {NULL, Unrecognized},
     hiringPressure : RadioValues("hiringPressure") \cup {NULL, Unrecognized}]

InitCalc ==
    /\ currentStep = 1
    /\ formData \in AnyFormData
    /\ disabled = InitialDisabled
    /\ active = InitialActive
    /\ progress = updateProgress(1)
    /\ scrollTop = 0
    /\ dom = <<>>
    /\ riskData = <<>>
    /\ calcInput = <<>>
    /\ lastEvent = Event("init", 1)

CallCalculateRisk ==
    /\ riskData = <<>>
    /\ riskData' = <<calculateRisk(formData)>>
    /\ calcInput' = <<formData>>
    /\ lastEvent' = Event("calculateRisk()", currentStep)
    /\ UNCHANGED <<currentStep, formData, disabled, active, progress,
                   scrollTop, dom>>

NextCalc == CallCalculateRisk

SpecCalc == InitCalc /\ [][NextCalc]_vars

-----------------------------------------------------------------------------
(* Properties *)

\* the answer field each step's radio group fills, steps 1..4
AnswerOfStep == <<"firmSize", "bilingualExposure", "region", "hiringPressure">>

\* the 108 valid answer combinations
ValidAnswers ==
    [firmSize : {"small", "medium", "large"},
     bilingualExposure : {"low", "medium", "high"},
     region : {"brussels", "antwerp", "liege", "other"},
     hiringPressure : {"stable", "moderate", "aggressive"}]

Answers(a, b, c, d) ==
    [firmSize |-> a, bilingualExposure |-> b, region |-> c, hiringPressure |-> d]

\* x clamped to [0, 100], x in units of 10^-5
Clamped(x) ==
    IF x < 0 THEN 0 ELSE IF x > 100 * Unit THEN 100 * Unit ELSE x

\* C1: whenever calculateRisk has been invoked by the wizard, the formData
\* it read had firmSize, bilingualExposure, region and hiringPressure all
\* set (non-null).
C1_ScoringOnlyWhenComplete ==
    calcInput # <<>> =>
        /\ calcInput[1].firmSize # NULL
        /\ calcInput[1].bilingualExposure # NULL
        /\ calcInput[1].region # NULL
        /\ calcInput[1].hiringPressure # NULL

\* the step-4 next handler has invoked calculateRisk
C1_Witness ==
    /\ calcInput # <<>>
    /\ lastEvent = Event("next", 4)

\* C2: at step k in 1..4, a click on the step's next button leaves
\* currentStep at k while the step's answer is unset and moves it to k+1
\* once the answer is set, also after a retreat from a later step.
C2_AdvanceGatedByAnswer ==
    [][\A k \in 1..4 :
          (currentStep = k /\ lastEvent'.kind \in {"next", "next-disabled"}) =>
              IF formData[AnswerOfStep[k]] = NULL
              THEN currentStep' = k
              ELSE currentStep' = k + 1]_vars

\* step 2's next button advanced to step 3 although the answers of steps 3
\* and 4 were given before: the user had retreated from step 4
C2_Witness ==
    /\ currentStep = 3
    /\ lastEvent = Event("next", 2)
    /\ formData.region # NULL
    /\ formData.hiringPressure # NULL

\* C3: currentStep stays within 1..5; nextStep() at step 5 and prevStep()
\* at step 1 leave currentStep, the answers and the progress indicator
\* unchanged; otherwise nextStep() adds exactly 1 and prevStep() subtracts
\* exactly 1.
C3_StepBoundsAndNoOps ==
    /\ [](currentStep \in 1..5)
    /\ [][/\ lastEvent'.kind = "nextStep()" =>
               IF currentStep = 5
               THEN UNCHANGED <<currentStep, formData, progress>>
               ELSE currentStep' = currentStep + 1
           /\ lastEvent'.kind = "prevStep()" =>
               IF currentStep = 1
               THEN UNCHANGED <<currentStep, formData, progress>>
               ELSE currentStep' = currentStep - 1]_vars

\* nextStep() has been called at step 5
C3_Witness ==
    /\ currentStep = 5
    /\ lastEvent = Event("nextStep()", 5)

\* C4: at step k the answers of steps 1..k-1 are set (at step 5 all four),
\* and an answer once set never reverts to unset.
C4_AnswersCollectedInOrder ==
    /\ [](\A j \in 1..4 : j < currentStep => formData[AnswerOfStep[j]] # NULL)
    /\ [][\A f \in Fields : formData[f] # NULL => formData'[f] # NULL]_vars

\* the terminal step has been reached
C4_Witness ==
    /\ currentStep = 5
    /\ \A f \in Fields : formData[f] # NULL

\* C5: for every valid answer combination the returned score is
\* 50 x firmSizeCoeff x bilingualCoeff x regionCoeff x hiringCoeff clamped
\* to [0,100]; small/low/liege/stable gives 20.16,
\* medium/medium/other/moderate gives 50 and
\* large/high/brussels/aggressive gives 100.
C5_ScoreIsClampedProduct ==
    (riskData # <<>> /\ calcInput[1] \in ValidAnswers) =>
        LET fd == calcInput[1]
            score == riskData[1].riskScore
            \* tenths^4 = 10^-4, so one more factor 10 gives units of 10^-5
            raw == 50 * firmSizeRisk[fd.firmSize]
                      * bilingualRisk[fd.bilingualExposure]
                      * regionalPressure[fd.region]
                      * hiringPressureRisk[fd.hiringPressure] * 10
        IN  /\ ~score.nan
            /\ score.v = Clamped(raw)
            /\ score.v >= 0 /\ score.v <= 100 * Unit
            /\ fd = Answers("small", "low", "liege", "stable")
                  => score.v = 2016000
            /\ fd = Answers("medium", "medium", "other", "moderate")
                  => score.v = 50 * Unit
            /\ fd = Answers("large", "high", "brussels", "aggressive")
                  => raw = 14196000 /\ score.v = 100 * Unit

\* a raw product above 100 has been clamped
C5_Witness ==
    /\ riskData # <<>>
    /\ calcInput = <<Answers("large", "high", "brussels", "aggressive")>>
    /\ riskData[1].riskScore = Lit(100)

\* C6: the returned tier is one of low, moderate, elevated, structural
\* (riskClass; the label riskLevel of the last one reads "Structural Risk")
\* and follows the score with half-open boundaries: below 40 low, from 40
\* below 60 moderate, from 60 below 80 elevated, from 80 structural.
C6_TierByThresholds ==
    riskData # <<>> =>
        LET score == riskData[1].riskScore
            tier == riskData[1].riskClass
            fd == calcInput[1]
        IN  /\ tier \in {"low", "moderate", "elevated", "structural"}
            /\ ~score.nan =>
                /\ (score.v < 40 * Unit) <=> (tier = "low")
                /\ (40 * Unit <= score.v /\ score.v < 60 * Unit)
                      <=> (tier = "moderate")
                /\ (60 * Unit <= score.v /\ score.v < 80 * Unit)
                      <=> (tier = "elevated")
                /\ (80 * Unit <= score.v) <=> (tier = "structural")
            /\ fd = Answers("small", "low", "liege", "stable")
                  => tier = "low" /\ riskData[1].riskLevel = "Low"
            /\ fd = Answers("medium", "medium", "other", "moderate")
                  => tier = "moderate" /\ riskData[1].riskLevel = "Moderate"

\* a score of exactly 60 has been ranked elevated
C6_Witness ==
    /\ riskData # <<>>
    /\ riskData[1].riskScore = Lit(60)
    /\ riskData[1].riskClass = "elevated"

\* C7: for every valid answer combination each sub-indicator lies in
\* [0,100] and equals its formula clamped to [0,100].
C7_IndicatorsClamped ==
    (riskData # <<>> /\ calcInput[1] \in ValidAnswers) =>
        LET fd == calcInput[1]
            s == riskData[1].riskScore.v
            ind == riskData[1].indicators
        IN  /\ \A i \in DOMAIN ind :
                  ~ind[i].nan /\ ind[i].v >= 0 /\ ind[i].v <= 100 * Unit
            /\ ind.bilingualPressure.v =
                  Clamped((s * 11) \div 10
                          + (IF fd.region = "brussels" THEN 15 * Unit ELSE 0))
            /\ ind.scarcityExposure.v = Clamped((s * 12) \div 10)
            /\ ind.aiLeverage.v =
                  Clamped(100 * Unit - (s * 3) \div 10
                          + (IF fd.firmSize = "large" THEN 20 * Unit ELSE 0))
            /\ ind.eorFeasibility.v =
                  Clamped((IF fd.bilingualExposure = "high"
                           THEN 85 * Unit ELSE 60 * Unit)
                          + (IF fd.hiringPressure = "aggressive"
                             THEN 15 * Unit ELSE 0))

\* aiLeverage of a large firm with a score below 66.67: the raw value
\* 100 - score x 0.3 + 20 exceeds 100 and has been clamped
C7_Witness ==
    /\ riskData # <<>>
    /\ calcInput[1] \in ValidAnswers
    /\ calcInput[1].firmSize = "large"
    /\ riskData[1].riskScore.v < 60 * Unit
    /\ riskData[1].indicators.aiLeverage = Lit(100)

\* C8: calculateRisk returns no risk result when an answer field is unset
\* or is no key of its coefficient table.
C8_RejectsInvalidAnswers ==
    riskData # <<>> => calcInput[1] \in ValidAnswers

\* C9: whenever currentStep = 5 the rendered tier, description and
\* indicators are those of calculateRisk for the answers held in the state.
C9_ResultsMatchAnswers ==
    currentStep = 5 =>
        /\ dom # <<>>
        /\ dom[1].riskValue = calculateRisk(formData).riskLevel
        /\ dom[1].riskValueClass = calculateRisk(formData).riskClass
        /\ dom[1].riskDescription = calculateRisk(formData).riskDescription
        /\ dom[1].bilingualPressure.width
              = calculateRisk(formData).indicators.bilingualPressure
        /\ dom[1].scarcity.width
              = calculateRisk(formData).indicators.scarcityExposure
        /\ dom[1].aiLeverage.width
              = calculateRisk(formData).indicators.aiLeverage
        /\ dom[1].eorFeasibility.width
              = calculateRisk(formData).indicators.eorFeasibility

\* the step-4 next handler has rendered the results and shown step 5
C9_Witness ==
    /\ currentStep = 5
    /\ dom # <<>>
    /\ lastEvent = Event("next", 4)

\* C10: the progress indicator is currentStep / 5 x 100, exactly the step
\* currentStep is active, and a change event alters neither.
C10_ProgressAndActiveStep ==
    /\ [](/\ progress * 5 = currentStep * 100
          /\ progress \in {20, 40, 60, 80, 100}
          /\ active = {currentStep})
    /\ [][lastEvent'.kind = "change" => UNCHANGED <<progress, active>>]_vars

\* an answer has been selected at step 3
C10_Witness ==
    /\ currentStep = 3
    /\ progress = 60
    /\ lastEvent = Event("change", 3)

====
